---- MODULE Spec2Model ----
(***************************************************************************)
(* Frame distribution, worker pool, load shedding and shutdown of the      *)
(* license-plate-reader client (client/app.py).                            *)
(*                                                                         *)
(* app.py holds GracefullKiller, WorkerPool, DistributeFramesAndInfer and  *)
(* main.  InferenceWorker, Flusher and BroadcastReassembled are imported   *)
(* from the module `workers`; their loops are modelled from the design     *)
(* document (sections 4.2, 4.3 and 2).                                     *)
(***************************************************************************)
EXTENDS Integers, Sequences, FiniteSets, TLC

\* ---------------------------------------------------------------- bounds
MaxWorkers == 2        \* pool sizes explored: 1..MaxWorkers
MaxNth == 3            \* decimation factors explored: 1..MaxNth
MaxFrames == 4         \* frame starts fed to write() in one run
MaxThreshold == 2      \* finite shedding thresholds explored: 1..MaxThreshold
MaxCont == 1           \* continuation chunks fed to write() per frame

\* a threshold no reachable depth exceeds: shedding disabled
NoShedding == MaxFrames + 1

\* ------------------------------------------------------------ byte chunks
\* b"\xff\xd8", the JPEG start-of-image marker tested by write()
SOI == <<255, 216>>

\* the chunks the camera hands to write(): one that begins with the marker,
\* and an empty one, a 1-byte one, one with the marker in its middle and one
\* with the marker bytes swapped
Chunks ==
    { <<255, 216, 7>>,
      << >>, <<255>>, <<7, 255, 216>>, <<216, 255>> }

\* bytes.startswith(prefix)
StartsWith(buf, prefix) ==
    /\ Len(buf) >= Len(prefix)
    /\ SubSeq(buf, 1, Len(prefix)) = prefix

\* ------------------------------------------------------------------ state
VARIABLES
    workers,               \* pool_cfg["workers"]
    pick_every_nth_frame,  \* pool_cfg["pick_every_nth_frame"]
    threshold,             \* gen_cfg["frame_count_threshold"]
    infer_may_fail,        \* whether the external infer step can fail
    fragmented,            \* whether the camera splits a frame into chunks
    frame_num,             \* DistributeFramesAndInfer.frame_num
    in_queue,              \* DistributeFramesAndInfer.in_queue
    out_queue,             \* DistributeFramesAndInfer.out_queue
    event_stopper,         \* WorkerPool.event_stopper
    poolpc,                \* position of WorkerPool.run
    wpc,                   \* position of each worker's loop
    wtask,                 \* the task each worker holds
    kill_now,              \* GracefullKiller.kill_now
    mainpc,                \* position of main
    recording,             \* the mjpeg recording (splitter_port=1) is on
    reassembler_running,   \* BroadcastReassembled runs
    flusher_running,       \* Flusher runs
    flusherpc,             \* position of the Flusher's loop
    join_cancelled,        \* cancel_join_thread() was called on the queues
    \* history (never read by the program)
    marker_chunks,         \* chunks beginning with the marker given to write
    enqueued,              \* frame_num of every task put on in_queue
    cont_chunks,           \* the chunks without the marker given to write
                           \* since the last frame start
    pulled,                \* per frame_num, how often a worker pulled it
    results,               \* per frame_num, results pushed to out_queue
    shed,                  \* per frame_num, how often the Flusher shed it
    dropped,               \* per frame_num, how often a stopping worker
                           \* let it go
    shed_snapshot,         \* in_queue when the current shed began
    shed_disturbed,        \* a put or pull happened since the shed began
    inferring_at_stop,     \* frame_num of the tasks being inferred when
                           \* the stop event was set
    stop_log               \* teardown events in the order they happened

confvars ==
    <<workers, pick_every_nth_frame, threshold, infer_may_fail, fragmented>>
segvars == <<frame_num, marker_chunks, enqueued, cont_chunks>>
poolvars == <<event_stopper, poolpc, wpc, wtask, pulled, results, dropped>>
mainvars == <<kill_now, mainpc, recording, join_cancelled, stop_log>>
flushvars == <<flusher_running, flusherpc, shed, shed_snapshot>>

vars ==
    <<workers, pick_every_nth_frame, threshold, infer_may_fail, frame_num,
      in_queue, out_queue, event_stopper, poolpc, wpc, wtask, kill_now,
      mainpc, recording, reassembler_running, flusher_running, flusherpc,
      join_cancelled, marker_chunks, enqueued, pulled, results, shed,
      dropped, shed_snapshot, shed_disturbed, inferring_at_stop, stop_log,
      fragmented, cont_chunks>>

NoTask == [frame_num |-> -1, jpeg |-> << >>]

Workers == 1..workers

\* a worker whose thread has ended, normally or by a failure
Terminated(w) == wpc[w] \in {"exited", "crashed"}

\* the frame numbers of the tasks whose inference is under way
Inferring == {wtask[w].frame_num : w \in {v \in Workers : wpc[v] = "infer"}}

\* the last n elements of s
LastN(s, n) ==
    IF Len(s) <= n THEN s ELSE SubSeq(s, Len(s) - n + 1, Len(s))

\* history counters, one per frame number
FrameNums == 0..(MaxFrames - 1)
NoneYet == [k \in FrameNums |-> 0]
Count(h, k) == [h EXCEPT ![k] = @ + 1]

\* the elements of a sequence as a set
Range(s) == {s[i] : i \in 1..Len(s)}

\* --------------------------------------------------------------- start-up
\* main up to the wait loop, everything but the configuration: the pool
\* process is started but has not yet run, reassembler and flusher are
\* started, both recordings are on
Start ==
    /\ frame_num = 0
    /\ in_queue = << >>
    /\ out_queue = << >>
    /\ event_stopper = FALSE
    /\ poolpc = "spawn"
    /\ wpc = [w \in Workers |-> "new"]
    /\ wtask = [w \in Workers |-> NoTask]
    /\ kill_now = FALSE
    /\ mainpc = "wait"
    /\ recording = TRUE
    /\ reassembler_running = TRUE
    /\ flusher_running = TRUE
    /\ flusherpc = "sample"
    /\ join_cancelled = FALSE
    /\ marker_chunks = 0
    /\ enqueued = << >>
    /\ pulled = NoneYet
    /\ results = NoneYet
    /\ shed = NoneYet
    /\ dropped = NoneYet
    /\ shed_snapshot = << >>
    /\ shed_disturbed = FALSE
    /\ inferring_at_stop = {}
    /\ stop_log = << >>
    /\ cont_chunks = << >>

\* the camera hands every frame to write() in one chunk
Init ==
    /\ workers \in 1..MaxWorkers
    /\ pick_every_nth_frame \in 1..MaxNth
    /\ threshold \in (1..MaxThreshold) \cup {NoShedding}
    /\ infer_may_fail \in BOOLEAN
    /\ fragmented = FALSE
    /\ Start

\* the camera splits frames into chunks; one worker, threshold 1 and an
\* infer step that can fail
InitStream ==
    /\ workers = 1
    /\ pick_every_nth_frame \in 1..MaxNth
    /\ threshold = 1
    /\ infer_may_fail = TRUE
    /\ fragmented = TRUE
    /\ Start

\* -------------------------------------------------------------- Segmenter
\* the chunks without the marker seen since the last frame start, after buf
Continuation(buf) ==
    IF StartsWith(buf, SOI) THEN << >> ELSE Append(cont_chunks, buf)

\* write() with the counter incremented before the modulo test and the put
write_IncrementFirst(buf) ==
    /\ recording
    /\ frame_num < MaxFrames
    /\ IF StartsWith(buf, SOI)
       THEN /\ IF (frame_num + 1) % pick_every_nth_frame = 0
               THEN /\ in_queue' =
                        Append(in_queue,
                               [frame_num |-> frame_num + 1, jpeg |-> buf])
                    /\ enqueued' = Append(enqueued, frame_num + 1)
                    /\ shed_disturbed' = TRUE
               ELSE UNCHANGED <<in_queue, enqueued, shed_disturbed>>
            /\ frame_num' = frame_num + 1
            /\ marker_chunks' = marker_chunks + 1
       ELSE UNCHANGED <<in_queue, enqueued, shed_disturbed, frame_num,
                        marker_chunks>>
    /\ cont_chunks' = Continuation(buf)
    /\ UNCHANGED <<confvars, inferring_at_stop,
                   out_queue, poolvars, mainvars,
                   reassembler_running, flushvars>>

\* write() with the counter advanced only for the frames it keeps
write_CountKept(buf) ==
    /\ recording
    /\ frame_num < MaxFrames
    /\ IF StartsWith(buf, SOI)
       THEN /\ IF frame_num % pick_every_nth_frame = 0
               THEN /\ in_queue' =
                        Append(in_queue, [frame_num |-> frame_num, jpeg |-> buf])
                    /\ enqueued' = Append(enqueued, frame_num)
                    /\ shed_disturbed' = TRUE
                    /\ frame_num' = frame_num + 1
               ELSE UNCHANGED <<in_queue, enqueued, shed_disturbed, frame_num>>
            /\ marker_chunks' = marker_chunks + 1
       ELSE UNCHANGED <<in_queue, enqueued, shed_disturbed, frame_num,
                        marker_chunks>>
    /\ cont_chunks' = Continuation(buf)
    /\ UNCHANGED <<confvars, inferring_at_stop,
                   out_queue, poolvars, mainvars,
                   reassembler_running, flushvars>>

\* write() on a queue bounded at the shedding threshold: put() waits for room
write_BoundedQueue(buf) ==
    /\ recording
    /\ frame_num < MaxFrames
    /\ Len(in_queue) <= threshold
    /\ IF StartsWith(buf, SOI)
       THEN /\ IF frame_num % pick_every_nth_frame = 0
               THEN /\ in_queue' =
                        Append(in_queue, [frame_num |-> frame_num, jpeg |-> buf])
                    /\ enqueued' = Append(enqueued, frame_num)
                    /\ shed_disturbed' = TRUE
               ELSE UNCHANGED <<in_queue, enqueued, shed_disturbed>>
            /\ frame_num' = frame_num + 1
            /\ marker_chunks' = marker_chunks + 1
       ELSE UNCHANGED <<in_queue, enqueued, shed_disturbed, frame_num,
                        marker_chunks>>
    /\ cont_chunks' = Continuation(buf)
    /\ UNCHANGED <<confvars, inferring_at_stop,
                   out_queue, poolvars, mainvars,
                   reassembler_running, flushvars>>

\* write() with the increment in the branch of the dropped frames only
write_IncrementOnDrop(buf) ==
    /\ recording
    /\ Len(enqueued) < MaxFrames
    /\ IF StartsWith(buf, SOI)
       THEN /\ IF frame_num % pick_every_nth_frame = 0
               THEN /\ in_queue' =
                        Append(in_queue, [frame_num |-> frame_num, jpeg |-> buf])
                    /\ enqueued' = Append(enqueued, frame_num)
                    /\ shed_disturbed' = TRUE
                    /\ UNCHANGED frame_num
               ELSE /\ frame_num' = frame_num + 1
                    /\ UNCHANGED <<in_queue, enqueued, shed_disturbed>>
            /\ marker_chunks' = marker_chunks + 1
       ELSE UNCHANGED <<in_queue, enqueued, shed_disturbed, frame_num,
                        marker_chunks>>
    /\ cont_chunks' = Continuation(buf)
    /\ UNCHANGED <<confvars, inferring_at_stop,
                   out_queue, poolvars, mainvars,
                   reassembler_running, flushvars>>

\* write() testing for the marker anywhere in the chunk (b"\xff\xd8" in buf)
write_MarkerAnywhere(buf) ==
    /\ recording
    /\ frame_num < MaxFrames
    /\ IF \E i \in 1..(Len(buf) - 1) : SubSeq(buf, i, i + 1) = SOI
       THEN /\ IF frame_num % pick_every_nth_frame = 0
               THEN /\ in_queue' =
                        Append(in_queue, [frame_num |-> frame_num, jpeg |-> buf])
                    /\ enqueued' = Append(enqueued, frame_num)
                    /\ shed_disturbed' = TRUE
               ELSE UNCHANGED <<in_queue, enqueued, shed_disturbed>>
            /\ frame_num' = frame_num + 1
       ELSE UNCHANGED <<in_queue, enqueued, shed_disturbed, frame_num>>
    /\ marker_chunks' =
           IF StartsWith(buf, SOI) THEN marker_chunks + 1 ELSE marker_chunks
    /\ cont_chunks' = Continuation(buf)
    /\ UNCHANGED <<confvars, inferring_at_stop,
                   out_queue, poolvars, mainvars,
                   reassembler_running, flushvars>>

\* of the mjpeg recording
write(buf) ==
    /\ recording
    /\ frame_num < MaxFrames
    /\ IF StartsWith(buf, SOI)
       THEN /\ IF frame_num % pick_every_nth_frame = 0
               THEN /\ in_queue' =
                        Append(in_queue, [frame_num |-> frame_num, jpeg |-> buf])
                    /\ enqueued' = Append(enqueued, frame_num)
                    /\ shed_disturbed' = TRUE
               ELSE UNCHANGED <<in_queue, enqueued, shed_disturbed>>
            /\ frame_num' = frame_num + 1
            /\ marker_chunks' = marker_chunks + 1
       ELSE UNCHANGED <<in_queue, enqueued, shed_disturbed, frame_num,
                        marker_chunks>>
    /\ cont_chunks' = Continuation(buf)
    /\ UNCHANGED <<confvars, inferring_at_stop,
                   out_queue, poolvars, mainvars,
                   reassembler_running, flushvars>>

\* ------------------------------------------------------------ Worker pool
\* WorkerPool.run: create and start the workers
PoolSpawn ==
    /\ poolpc = "spawn"
    /\ wpc' = [w \in Workers |-> "pull"]
    /\ poolpc' = "wait"
    /\ UNCHANGED <<confvars, inferring_at_stop,
                   segvars, in_queue, out_queue, event_stopper,
                   wtask, pulled, results, dropped, mainvars,
                   reassembler_running, flushvars, shed_disturbed>>

\* WorkerPool.run: the loop `while not self.event_stopper.is_set()` ends
PoolWait ==
    /\ poolpc = "wait"
    /\ event_stopper
    /\ poolpc' = "join"
    /\ UNCHANGED <<confvars, inferring_at_stop,
                   segvars, in_queue, out_queue, event_stopper,
                   wpc, wtask, pulled, results, dropped, mainvars,
                   reassembler_running, flushvars, shed_disturbed>>

\* WorkerPool.run ending without waiting for its workers
PoolJoinWorkers_NoWait ==
    /\ poolpc = "join"
    /\ poolpc' = "done"
    /\ UNCHANGED <<confvars, inferring_at_stop,
                   segvars, in_queue, out_queue, event_stopper,
                   wpc, wtask, pulled, results, dropped, mainvars,
                   reassembler_running, flushvars, shed_disturbed>>

\* WorkerPool.run clearing the event once its workers are joined
PoolJoinWorkers_ClearEvent ==
    /\ poolpc = "join"
    /\ \A w \in Workers : Terminated(w)
    /\ poolpc' = "done"
    /\ event_stopper' = FALSE
    /\ UNCHANGED <<confvars, inferring_at_stop,
                   segvars, in_queue, out_queue,
                   wpc, wtask, pulled, results, dropped, mainvars,
                   reassembler_running, flushvars, shed_disturbed>>

\* WorkerPool.run: [worker.join() for worker in pool] returns
PoolJoinWorkers ==
    /\ poolpc = "join"
    /\ \A w \in Workers : Terminated(w)
    /\ poolpc' = "done"
    /\ UNCHANGED <<confvars, inferring_at_stop,
                   segvars, in_queue, out_queue, event_stopper,
                   wpc, wtask, pulled, results, dropped, mainvars,
                   reassembler_running, flushvars, shed_disturbed>>

\* a pull that reads the head of the queue and leaves it there
WorkerPull_Peek(w) ==
    /\ wpc[w] = "pull"
    /\ in_queue # << >>
    /\ wtask' = [wtask EXCEPT ![w] = Head(in_queue)]
    /\ pulled' = Count(pulled, Head(in_queue).frame_num)
    /\ wpc' = [wpc EXCEPT ![w] = "check"]
    /\ shed_disturbed' = TRUE
    /\ UNCHANGED <<confvars, inferring_at_stop,
                   segvars, in_queue, out_queue, event_stopper,
                   poolpc, results, dropped, mainvars, reassembler_running,
                   flushvars>>

\* worker loop: task = pull(WorkQueue), blocking while the queue is empty
WorkerPull(w) ==
    /\ wpc[w] = "pull"
    /\ in_queue # << >>
    /\ wtask' = [wtask EXCEPT ![w] = Head(in_queue)]
    /\ in_queue' = Tail(in_queue)
    /\ pulled' = Count(pulled, Head(in_queue).frame_num)
    /\ wpc' = [wpc EXCEPT ![w] = "check"]
    /\ shed_disturbed' = TRUE
    /\ UNCHANGED <<confvars, inferring_at_stop,
                   segvars, out_queue, event_stopper, poolpc,
                   results, dropped, mainvars, reassembler_running,
                   flushvars>>

\* worker loop: if stop_requested: exit
WorkerCheck(w) ==
    /\ wpc[w] = "check"
    /\ IF event_stopper
       THEN /\ wpc' = [wpc EXCEPT ![w] = "exited"]
            /\ dropped' = Count(dropped, wtask[w].frame_num)
            /\ wtask' = [wtask EXCEPT ![w] = NoTask]
       ELSE /\ wpc' = [wpc EXCEPT ![w] = "infer"]
            /\ UNCHANGED <<dropped, wtask>>
    /\ UNCHANGED <<confvars, inferring_at_stop,
                   segvars, in_queue, out_queue, event_stopper,
                   poolpc, pulled, results, mainvars, reassembler_running,
                   flushvars, shed_disturbed>>

\* worker loop: result = infer(task); push(ResultQueue, result)
WorkerInfer(w) ==
    /\ wpc[w] = "infer"
    /\ out_queue' = Append(out_queue, [frame_num |-> wtask[w].frame_num])
    /\ results' = Count(results, wtask[w].frame_num)
    /\ wtask' = [wtask EXCEPT ![w] = NoTask]
    /\ wpc' = [wpc EXCEPT ![w] = "pull"]
    /\ UNCHANGED <<confvars, inferring_at_stop,
                   segvars, in_queue, event_stopper, poolpc,
                   pulled, dropped, mainvars, reassembler_running,
                   flushvars, shed_disturbed>>

\* worker loop: infer(task) fails; the worker is gone and is not restarted,
\* its task is not re-enqueued
WorkerCrash(w) ==
    /\ infer_may_fail
    /\ wpc[w] = "infer"
    /\ wpc' = [wpc EXCEPT ![w] = "crashed"]
    /\ UNCHANGED <<confvars, inferring_at_stop,
                   segvars, in_queue, out_queue, event_stopper,
                   poolpc, wtask, pulled, results, dropped, mainvars,
                   reassembler_running, flushvars, shed_disturbed>>

\* ------------------------------------------------------------ Load shedder
\* Flusher loop: sample depth(); begin to drain when depth() > threshold
FlusherSample ==
    /\ flusher_running
    /\ flusherpc = "sample"
    /\ Len(in_queue) > threshold
    /\ flusherpc' = "drain"
    /\ shed_snapshot' = in_queue
    /\ shed_disturbed' = FALSE
    /\ UNCHANGED <<confvars, inferring_at_stop,
                   segvars, in_queue, out_queue, poolvars,
                   mainvars, reassembler_running, flusher_running, shed>>

\* a drain that discards the newest entry instead of the oldest
FlusherDrain_Newest ==
    /\ flusher_running
    /\ flusherpc = "drain"
    /\ IF Len(in_queue) > threshold
       THEN /\ in_queue' = SubSeq(in_queue, 1, Len(in_queue) - 1)
            /\ shed' = Count(shed, in_queue[Len(in_queue)].frame_num)
            /\ UNCHANGED flusherpc
       ELSE /\ flusherpc' = "sample"
            /\ UNCHANGED <<in_queue, shed>>
    /\ UNCHANGED <<confvars, inferring_at_stop,
                   segvars, out_queue, poolvars, mainvars,
                   reassembler_running, flusher_running, shed_snapshot,
                   shed_disturbed>>

\* a drain that discards one entry per sample instead of looping
FlusherDrain_OneOnly ==
    /\ flusher_running
    /\ flusherpc = "drain"
    /\ IF Len(in_queue) > threshold
       THEN /\ in_queue' = Tail(in_queue)
            /\ shed' = Count(shed, Head(in_queue).frame_num)
       ELSE UNCHANGED <<in_queue, shed>>
    /\ flusherpc' = "sample"
    /\ UNCHANGED <<confvars, inferring_at_stop,
                   segvars, out_queue, poolvars, mainvars,
                   reassembler_running, flusher_running, shed_snapshot,
                   shed_disturbed>>

\* Flusher loop: discard the oldest entry until depth() <= threshold
FlusherDrain ==
    /\ flusher_running
    /\ flusherpc = "drain"
    /\ IF Len(in_queue) > threshold
       THEN /\ in_queue' = Tail(in_queue)
            /\ shed' = Count(shed, Head(in_queue).frame_num)
            /\ UNCHANGED flusherpc
       ELSE /\ flusherpc' = "sample"
            /\ UNCHANGED <<in_queue, shed>>
    /\ UNCHANGED <<confvars, inferring_at_stop,
                   segvars, out_queue, poolvars, mainvars,
                   reassembler_running, flusher_running, shed_snapshot,
                   shed_disturbed>>

\* ------------------------------------------------------------ Reassembler
\* BroadcastReassembled: takes the results in the order they arrive
ReassemblerTake ==
    /\ reassembler_running
    /\ out_queue # << >>
    /\ out_queue' = Tail(out_queue)
    /\ UNCHANGED <<confvars, inferring_at_stop,
                   segvars, in_queue, poolvars, mainvars,
                   reassembler_running, flushvars, shed_disturbed>>

\* ------------------------------------------------------------------- main
\* GracefullKiller.exit_gracefully: SIGINT or SIGTERM arrives
exit_gracefully ==
    /\ ~kill_now
    /\ kill_now' = TRUE
    /\ UNCHANGED <<confvars, inferring_at_stop,
                   segvars, in_queue, out_queue, poolvars, mainpc,
                   recording, join_cancelled, stop_log, reassembler_running,
                   flushvars, shed_disturbed>>

\* a wait loop that can end without the signal
MainWait_NoSignal ==
    /\ mainpc = "wait"
    /\ mainpc' = "stop_rec0"
    /\ UNCHANGED <<confvars, inferring_at_stop,
                   segvars, in_queue, out_queue, poolvars,
                   kill_now, recording, join_cancelled, stop_log,
                   reassembler_running, flushvars, shed_disturbed>>

\* main: `while not killer.kill_now` ends
MainWait ==
    /\ mainpc = "wait"
    /\ kill_now
    /\ mainpc' = "stop_rec0"
    /\ UNCHANGED <<confvars, inferring_at_stop,
                   segvars, in_queue, out_queue, poolvars,
                   kill_now, recording, join_cancelled, stop_log,
                   reassembler_running, flushvars, shed_disturbed>>

\* main: camera.stop_recording(splitter_port=0), the h264 file recording
StopRecording0 ==
    /\ mainpc = "stop_rec0"
    /\ mainpc' = "stop_rec1"
    /\ UNCHANGED <<confvars, inferring_at_stop,
                   segvars, in_queue, out_queue, poolvars,
                   kill_now, recording, join_cancelled, stop_log,
                   reassembler_running, flushvars, shed_disturbed>>

\* a teardown that leaves the mjpeg recording on
StopRecording1_KeepsRecording ==
    /\ mainpc = "stop_rec1"
    /\ stop_log' = Append(stop_log, "capture_stopped")
    /\ mainpc' = "pool_stop"
    /\ UNCHANGED <<confvars, inferring_at_stop,
                   segvars, in_queue, out_queue, poolvars,
                   kill_now, recording, join_cancelled, reassembler_running,
                   flushvars, shed_disturbed>>

\* main: camera.stop_recording(splitter_port=1), the recording into write()
StopRecording1 ==
    /\ mainpc = "stop_rec1"
    /\ recording' = FALSE
    /\ stop_log' = Append(stop_log, "capture_stopped")
    /\ mainpc' = "pool_stop"
    /\ UNCHANGED <<confvars, inferring_at_stop,
                   segvars, in_queue, out_queue, poolvars,
                   kill_now, join_cancelled, reassembler_running, flushvars,
                   shed_disturbed>>

\* a stop() that flips the event instead of setting it
PoolStop_Toggle(from, to) ==
    /\ mainpc = from
    /\ event_stopper' = ~event_stopper
    /\ inferring_at_stop' =
           IF event_stopper THEN inferring_at_stop ELSE Inferring
    /\ stop_log' = Append(stop_log, "pool_stop")
    /\ mainpc' = to
    /\ UNCHANGED <<confvars, segvars, in_queue, out_queue, poolpc, wpc,
                   wtask, pulled, results, dropped, kill_now, recording,
                   join_cancelled, reassembler_running, flushvars,
                   shed_disturbed>>

\* DistributeFramesAndInfer.stop: self.pool.stop(), WorkerPool.stop
PoolStop(from, to) ==
    /\ mainpc = from
    /\ event_stopper' = TRUE
    /\ inferring_at_stop' =
           IF event_stopper THEN inferring_at_stop ELSE Inferring
    /\ stop_log' = Append(stop_log, "pool_stop")
    /\ mainpc' = to
    /\ UNCHANGED <<confvars, segvars, in_queue, out_queue, poolpc, wpc,
                   wtask, pulled, results, dropped, kill_now, recording,
                   join_cancelled, reassembler_running, flushvars,
                   shed_disturbed>>

\* a stop() whose join does not wait for the pool process
PoolJoin_NoWait(from, to) ==
    /\ mainpc = from
    /\ stop_log' = Append(stop_log, "pool_joined")
    /\ mainpc' = to
    /\ UNCHANGED <<confvars, inferring_at_stop,
                   segvars, in_queue, out_queue, poolvars,
                   kill_now, recording, join_cancelled, reassembler_running,
                   flushvars, shed_disturbed>>

\* DistributeFramesAndInfer.stop: self.pool.join() returns once the pool
\* process has ended
PoolJoin(from, to) ==
    /\ mainpc = from
    /\ poolpc = "done"
    /\ stop_log' = Append(stop_log, "pool_joined")
    /\ mainpc' = to
    /\ UNCHANGED <<confvars, inferring_at_stop,
                   segvars, in_queue, out_queue, poolvars,
                   kill_now, recording, join_cancelled, reassembler_running,
                   flushvars, shed_disturbed>>

\* a cancel_join_thread() that throws away what in_queue still buffers
CancelJoinThread_DropBuffered(from, to) ==
    /\ mainpc = from
    /\ join_cancelled' = TRUE
    /\ in_queue' = << >>
    /\ mainpc' = to
    /\ UNCHANGED <<confvars, inferring_at_stop,
                   segvars, out_queue, poolvars,
                   kill_now, recording, stop_log, reassembler_running,
                   flushvars, shed_disturbed>>

\* DistributeFramesAndInfer.stop: cancel_join_thread() on both queues
CancelJoinThread(from, to) ==
    /\ mainpc = from
    /\ join_cancelled' = TRUE
    /\ mainpc' = to
    /\ UNCHANGED <<confvars, inferring_at_stop,
                   segvars, in_queue, out_queue, poolvars,
                   kill_now, recording, stop_log, reassembler_running,
                   flushvars, shed_disturbed>>

\* main: output.stop()
OutputStop ==
    \/ PoolStop("pool_stop", "pool_join")
    \/ PoolJoin("pool_join", "cancel")
    \/ CancelJoinThread("cancel", "reassembler_stop")

\* main: reassembler.stop()
ReassemblerStop ==
    /\ mainpc = "reassembler_stop"
    /\ reassembler_running' = FALSE
    /\ stop_log' = Append(stop_log, "reassembler_stopped")
    /\ mainpc' = "flusher_stop"
    /\ UNCHANGED <<confvars, inferring_at_stop,
                   segvars, in_queue, out_queue, poolvars,
                   kill_now, recording, join_cancelled, flushvars,
                   shed_disturbed>>

\* main: flusher.stop()
FlusherStop ==
    /\ mainpc = "flusher_stop"
    /\ flusher_running' = FALSE
    /\ stop_log' = Append(stop_log, "flusher_stopped")
    /\ mainpc' = "done"
    /\ UNCHANGED <<confvars, inferring_at_stop,
                   segvars, in_queue, out_queue, poolvars,
                   kill_now, recording, join_cancelled, reassembler_running,
                   flusherpc, shed, shed_snapshot, shed_disturbed>>

\* ---------------------------------------------------------- specification
\* the chunks the camera can hand to write() next: a frame start, or, when
\* it splits frames, one more continuation chunk of the current frame
CameraChunks ==
    {buf \in Chunks :
        \/ StartsWith(buf, SOI)
        \/ (fragmented /\ Len(cont_chunks) < MaxCont)}

Next ==
    \/ \E buf \in CameraChunks : write(buf)
    \/ PoolSpawn
    \/ PoolWait
    \/ PoolJoinWorkers
    \/ \E w \in Workers : WorkerPull(w)
    \/ \E w \in Workers : WorkerCheck(w)
    \/ \E w \in Workers : WorkerInfer(w)
    \/ \E w \in Workers : WorkerCrash(w)
    \/ FlusherSample
    \/ FlusherDrain
    \/ ReassemblerTake
    \/ exit_gracefully
    \/ MainWait
    \/ StopRecording0
    \/ StopRecording1
    \/ OutputStop
    \/ ReassemblerStop
    \/ FlusherStop

Spec == Init /\ [][Next]_vars

\* every process that can take a step eventually takes one: the pool
\* process, each worker (whose infer call returns), the Flusher, the
\* reassembler and main; the signal and the camera are not forced
WorkerStep(w) ==
    /\ w \in Workers
    /\ (WorkerPull(w) \/ WorkerCheck(w) \/ WorkerInfer(w))

Fairness ==
    /\ WF_vars(PoolSpawn \/ PoolWait \/ PoolJoinWorkers)
    /\ \A w \in 1..MaxWorkers : WF_vars(WorkerStep(w))
    /\ WF_vars(FlusherSample \/ FlusherDrain)
    /\ WF_vars(ReassemblerTake)
    /\ WF_vars(MainWait \/ StopRecording0 \/ StopRecording1 \/ OutputStop
                 \/ ReassemblerStop \/ FlusherStop)

FairSpec == Spec /\ Fairness

\* DistributeFramesAndInfer.stop() called once more after main has finished
StopAgain ==
    \/ PoolStop("done", "again_join")
    \/ PoolJoin("again_join", "again_cancel")
    \/ CancelJoinThread("again_cancel", "done2")

NextTwice == Next \/ StopAgain

SpecTwice == Init /\ [][NextTwice]_vars

\* the same program fed a fragmented stream
SpecStream == InitStream /\ [][Next]_vars

\* ============================================================ properties
AllTerminated == \A w \in Workers : Terminated(w)

\* main has entered its teardown (the wait loop has ended)
Stopping == mainpc # "wait"

\* DistributeFramesAndInfer.stop() has returned to main
StopReturned == mainpc \in {"reassembler_stop", "flusher_stop", "done"}

\* the frame numbers of the tasks in a queue, in queue order
FrameNumsOf(q) == [i \in 1..Len(q) |-> q[i].frame_num]

\* ceil(k / n)
CeilDiv(k, n) == (k + n - 1) \div n

\* ---------------------------------------------------------------------- C1
\* C1: after K chunks that begin with the marker were given to write(), the
\* frame numbers put on in_queue are exactly the multiples of
\* pick_every_nth_frame in 0..K-1, each once and in increasing order, so
\* ceil(K/N) tasks; every other frame was dropped.
C1_Decimation ==
    /\ Range(enqueued) =
           {k \in 0..(marker_chunks - 1) : k % pick_every_nth_frame = 0}
    /\ Len(enqueued) = CeilDiv(marker_chunks, pick_every_nth_frame)
    /\ \A i \in 1..Len(enqueued) : enqueued[i] % pick_every_nth_frame = 0

C1_Witness ==
    /\ pick_every_nth_frame = 3
    /\ marker_chunks = 4
    /\ enqueued = <<0, 3>>

\* ---------------------------------------------------------------------- C2
TeardownAsClaimed ==
    <<"capture_stopped", "pool_stop", "pool_joined", "flusher_stopped",
      "reassembler_stopped">>

TeardownInMain ==
    <<"capture_stopped", "pool_stop", "pool_joined", "reassembler_stopped",
      "flusher_stopped">>

IsPrefix(s, t) == Len(s) <= Len(t) /\ s = SubSeq(t, 1, Len(s))

\* C2 as stated: the teardown steps happen in the order capture, pool stop
\* and join, Flusher, reassembler; the Flusher is stopped before the
\* reassembler.
C2_OrderAsClaimed ==
    /\ IsPrefix(stop_log, TeardownAsClaimed)
    /\ ~reassembler_running => ~flusher_running

\* C2 amended: once the stop signal was observed the teardown steps happen
\* in the order capture stopped, pool stopped and joined, reassembler
\* stopped, Flusher stopped, each begun after the one before has finished;
\* the reassembler is stopped before the Flusher.
C2_TeardownOrder ==
    /\ IsPrefix(stop_log, TeardownInMain)
    /\ stop_log # << >> => kill_now
    /\ event_stopper => ~recording
    /\ ~reassembler_running => (event_stopper /\ poolpc = "done" /\ AllTerminated)
    /\ ~flusher_running => ~reassembler_running

C2_Witness ==
    /\ stop_log = TeardownInMain
    /\ ~flusher_running
    /\ mainpc = "done"

\* ---------------------------------------------------------------------- C3
\* C3: in every state after DistributeFramesAndInfer.stop() has returned all
\* spawned workers have ended, and no later step pulls a task from in_queue
\* or pushes a result to out_queue.
C3_NoWorkAfterStop ==
    [][StopReturned =>
          /\ AllTerminated
          /\ AllTerminated'
          /\ wpc' = wpc
          /\ pulled' = pulled
          /\ results' = results]_vars

C3_Witness ==
    /\ mainpc = "done"
    /\ workers = 2
    /\ AllTerminated
    /\ \E k \in FrameNums : results[k] > 0

\* ---------------------------------------------------------------------- C4
\* C4: the Flusher discards only the head of in_queue and only while the
\* depth exceeds the threshold; a shed that no put or pull interleaves with
\* ends with exactly the threshold most recently enqueued tasks, in their
\* order.
C4_ShedOldest ==
    [][/\ shed' # shed =>
            /\ Len(in_queue) > threshold
            /\ in_queue' = Tail(in_queue)
       /\ (flusherpc = "drain" /\ flusherpc' = "sample" /\ ~shed_disturbed) =>
            /\ Len(in_queue') = threshold
            /\ in_queue' = LastN(shed_snapshot, threshold)
            /\ FrameNumsOf(in_queue') = LastN(enqueued, threshold)]_vars

C4_Witness ==
    /\ threshold = 2
    /\ Len(shed_snapshot) = 4
    /\ flusherpc = "sample"
    /\ ~shed_disturbed
    /\ FrameNumsOf(in_queue) = <<2, 3>>

\* ---------------------------------------------------------------------- C5
\* how many copies of task k are in the queue, and how many workers hold it
InQueue(k) == Cardinality({i \in 1..Len(in_queue) : in_queue[i].frame_num = k})
Held(k) == Cardinality({w \in Workers : wtask[w].frame_num = k})

NoSheddingNoFailure == threshold = NoShedding /\ ~infer_may_fail

\* C5 as stated: with shedding disabled and no worker failures every task
\* put on in_queue has exactly one result, here once the run is over.
C5_EveryTaskOneResult ==
    (NoSheddingNoFailure /\ mainpc = "done") =>
        \A k \in Range(enqueued) : results[k] = 1

\* C5 amended: with shedding disabled and no worker failures every task put
\* on in_queue yields at most one result and is pulled by at most one
\* worker; it has exactly one result unless it is still in in_queue, is
\* held by a worker, or was pulled by a worker that then saw the stop event
\* and exited without inferring it.
C5_AtMostOneResult ==
    NoSheddingNoFailure =>
        \A k \in FrameNums :
            /\ results[k] <= 1
            /\ pulled[k] <= 1
            /\ shed[k] = 0
            /\ InQueue(k) + Held(k) + results[k] + dropped[k] =
                   (IF k \in Range(enqueued) THEN 1 ELSE 0)

C5_Witness ==
    /\ NoSheddingNoFailure
    /\ workers = 2
    /\ mainpc = "done"
    /\ Len(enqueued) = 4
    /\ \E k \in FrameNums : results[k] = 1
    /\ \E k \in FrameNums : dropped[k] = 1
    /\ in_queue # << >>

\* ---------------------------------------------------------------------- C6
\* C6: after the stop signal the shutdown always completes: main reaches
\* its end, whatever the state at the moment of the signal.
C6_ShutdownCompletes == kill_now ~> (mainpc = "done")

\* ---------------------------------------------------------------------- C7
SecondStop == mainpc \in {"done", "again_join", "again_cancel"}

\* C7: a second DistributeFramesAndInfer.stop() after the first leaves the
\* stop event set, the workers ended and both queues as they were, and each
\* of its steps can be taken at once (no error, no wait).
C7_StopTwice ==
    /\ [](mainpc = "done" => ENABLED PoolStop("done", "again_join"))
    /\ [](mainpc = "again_join" =>
              ENABLED PoolJoin("again_join", "again_cancel"))
    /\ [](mainpc = "again_cancel" =>
              ENABLED CancelJoinThread("again_cancel", "done2"))
    /\ [][(SecondStop /\ mainpc' # mainpc) =>
              /\ event_stopper /\ event_stopper'
              /\ AllTerminated /\ wpc' = wpc
              /\ poolpc' = poolpc
              /\ in_queue' = in_queue
              /\ out_queue' = out_queue
              /\ wtask' = wtask
              /\ frame_num' = frame_num
              /\ join_cancelled']_vars

C7_Witness ==
    /\ mainpc = "done2"
    /\ event_stopper
    /\ AllTerminated
    /\ in_queue # << >>

\* ---------------------------------------------------------------------- C8
\* C8: while the mjpeg recording is on, write() of any chunk can be taken,
\* whatever the depth of in_queue and the state of workers and Flusher
\* (up to the number of frames explored).
C8_WriteNeverBlocks ==
    (recording /\ frame_num < MaxFrames) =>
        \A buf \in Chunks : ENABLED write(buf)

C8_Witness ==
    /\ recording
    /\ frame_num < MaxFrames
    /\ Len(in_queue) > threshold
    /\ \A w \in Workers : wpc[w] = "crashed"

\* ---------------------------------------------------------------------- C9
\* C9: the Flusher discards no task once main has left its wait loop and
\* begun the teardown.
C9_NoShedAfterStop == [][shed' # shed => ~Stopping]_vars

\* --------------------------------------------------------------------- C10
\* C10 as stated: on a frame start the counter is incremented first; the
\* keep/drop decision and the frame number stored in the task use the
\* value after the increment.
C10_IncrementThenTest ==
    [][marker_chunks' # marker_chunks =>
          /\ frame_num' = frame_num + 1
          /\ (enqueued' # enqueued) <=>
                 (frame_num' % pick_every_nth_frame = 0)
          /\ enqueued' # enqueued =>
                 in_queue'[Len(in_queue')].frame_num = frame_num']_vars

\* C10 amended: on a frame start the keep/drop decision and the frame
\* number stored in the task use the counter value before the increment;
\* the counter is incremented afterwards, kept or dropped.
C10_TestThenIncrement ==
    [][marker_chunks' # marker_chunks =>
          /\ frame_num' = frame_num + 1
          /\ (enqueued' # enqueued) <=>
                 (frame_num % pick_every_nth_frame = 0)
          /\ enqueued' # enqueued =>
                 /\ enqueued' = Append(enqueued, frame_num)
                 /\ Len(in_queue') = Len(in_queue) + 1
                 /\ in_queue'[Len(in_queue')].frame_num = frame_num]_vars

C10_Witness ==
    /\ pick_every_nth_frame = 2
    /\ frame_num = 3
    /\ enqueued = <<0, 2>>

\* --------------------------------------------------------------------- C11
StrictlyIncreasing(s) == \A i, j \in 1..Len(s) : i < j => s[i] < s[j]

\* C11: the frame numbers of the tasks are strictly increasing in the order
\* of their put: no frame number is enqueued twice, and in_queue, which
\* loses tasks at its head only, is always sorted by frame number.
C11_IncreasingSequence ==
    /\ StrictlyIncreasing(enqueued)
    /\ StrictlyIncreasing(FrameNumsOf(in_queue))

C11_Witness ==
    /\ Len(enqueued) = 4
    /\ Len(in_queue) >= 3

\* --------------------------------------------------------------------- C12
\* C12: every task ever put on in_queue is in exactly one place: still in
\* in_queue, pulled by exactly one worker, or discarded by the Flusher;
\* also during and after pool stop, join and cancel_join_thread().
C12_NoTaskLost ==
    \A k \in FrameNums :
        /\ pulled[k] <= 1
        /\ InQueue(k) + pulled[k] + shed[k] =
               (IF k \in Range(enqueued) THEN 1 ELSE 0)

C12_Witness ==
    /\ mainpc = "done"
    /\ join_cancelled
    /\ in_queue # << >>
    /\ \E k \in FrameNums : pulled[k] = 1
    /\ \E k \in FrameNums : shed[k] = 1

\* --------------------------------------------------------------------- C13
\* C13: while the Flusher runs and the depth exceeds the threshold its next
\* step can be taken; the sampling step it then completes ends with
\* depth <= threshold, and the depth gets above the threshold again only
\* by a put of write().
C13_ShedResponse ==
    /\ []((flusher_running /\ Len(in_queue) > threshold) =>
              ENABLED (FlusherSample \/ FlusherDrain))
    /\ [][(flusherpc = "drain" /\ flusherpc' = "sample") =>
              Len(in_queue') <= threshold]_vars
    /\ [][(Len(in_queue) <= threshold /\ Len(in_queue') > threshold) =>
              enqueued' # enqueued]_vars

C13_Witness ==
    /\ threshold = 1
    /\ Len(shed_snapshot) = 3
    /\ \A k \in FrameNums : pulled[k] = 0
    /\ flusherpc = "sample"
    /\ Len(in_queue) = 1
    /\ shed[0] = 1 /\ shed[1] = 1

\* --------------------------------------------------------------------- C14
\* C14: no task is put on in_queue once the pool's stop has begun: the
\* mjpeg recording is off before pool.stop() sets the event, so every put
\* happens while the event is clear.
C14_NoEnqueueAfterPoolStop ==
    /\ [](event_stopper => ~recording)
    /\ [][enqueued' # enqueued =>
              (~event_stopper /\ ~event_stopper'
               /\ mainpc \in {"wait", "stop_rec0", "stop_rec1"})]_vars

C14_Witness ==
    /\ event_stopper
    /\ mainpc = "done"
    /\ Len(enqueued) = 4

\* --------------------------------------------------------------------- C18
\* C18: frame_num always equals the number of frame starts given to
\* write(), dropped frames included; it changes only by +1, together with
\* a frame start, and no step of pool, workers, Flusher or main changes it.
C18_CounterCountsFrames ==
    /\ [](frame_num = marker_chunks)
    /\ [][frame_num' # frame_num =>
              /\ frame_num' = frame_num + 1
              /\ marker_chunks' = marker_chunks + 1
              /\ recording]_vars
    /\ [][marker_chunks' # marker_chunks => frame_num' = frame_num + 1]_vars

C18_Witness ==
    /\ pick_every_nth_frame = 3
    /\ frame_num = 3
    /\ Len(enqueued) = 1
    /\ \E k \in FrameNums : shed[k] + pulled[k] > 0

\* --------------------------------------------------------------------- C19
\* RUNNING, STOPPING, STOPPED as 0, 1, 2
Phase ==
    IF mainpc = "wait" THEN 0 ELSE IF mainpc = "done" THEN 2 ELSE 1

\* C19: main only moves forward through RUNNING, STOPPING, STOPPED; it
\* leaves RUNNING only after the signal has set kill_now, and is out of
\* RUNNING only if the signal has occurred.
C19_ForwardOnly ==
    /\ [](Phase # 0 => kill_now)
    /\ [][Phase' >= Phase]_vars
    /\ [][(Phase = 0 /\ Phase' # 0) => (kill_now /\ Phase' = 1)]_vars
    /\ [][kill_now => kill_now']_vars

C19_Witness ==
    /\ Phase = 2
    /\ kill_now
    /\ \E w \in Workers : wpc[w] = "crashed"

\* --------------------------------------------------------------------- C20
\* C20: event_stopper is clear until main's pool.stop(), is set by that
\* step only and is never cleared; the number of workers never changes.
C20_StopFlagOwner ==
    /\ [](event_stopper <=>
              mainpc \in {"pool_join", "cancel", "reassembler_stop",
                          "flusher_stop", "done"})
    /\ [][event_stopper' # event_stopper =>
              (~event_stopper /\ event_stopper'
               /\ mainpc = "pool_stop" /\ mainpc' = "pool_join")]_vars
    /\ [][workers' = workers /\ DOMAIN wpc' = DOMAIN wpc]_vars

C20_Witness ==
    /\ event_stopper
    /\ poolpc = "done"
    /\ mainpc = "done"
    /\ workers = 2

\* --------------------------------------------------------------------- C15
\* pool.join() in DistributeFramesAndInfer.stop() has returned
JoinReturned ==
    mainpc \in {"cancel", "reassembler_stop", "flusher_stop", "done"}

RECURSIVE Flatten(_)
\* the chunks of a sequence of chunks, joined
Flatten(cs) == IF cs = << >> THEN << >> ELSE Head(cs) \o Flatten(Tail(cs))

\* C16: the payload of the task of the current frame, while it is the last
\* one in in_queue, is the chunk that carried the marker followed by the
\* continuation chunks given to write() since.
C16_ContinuationInPayload ==
    (in_queue # << >> /\ in_queue[Len(in_queue)].frame_num = frame_num - 1) =>
        \E m \in Chunks :
            /\ StartsWith(m, SOI)
            /\ in_queue[Len(in_queue)].jpeg = m \o Flatten(cont_chunks)

\* --------------------------------------------------------------------- C17
\* C17: write() of a chunk that does not begin with the marker (empty, one
\* byte, marker in the middle, marker bytes swapped) can always be taken
\* while the recording is on, and leaves frame_num, in_queue, out_queue and
\* the record of the puts as they were.
C17_OtherChunkNoEffect ==
    /\ []((recording /\ frame_num < MaxFrames) =>
              \A buf \in Chunks :
                  ~StartsWith(buf, SOI) => ENABLED write(buf))
    /\ [][Len(cont_chunks') > Len(cont_chunks) =>
              /\ frame_num' = frame_num
              /\ in_queue' = in_queue
              /\ out_queue' = out_queue
              /\ enqueued' = enqueued
              /\ marker_chunks' = marker_chunks]_vars

C17_Witness ==
    /\ cont_chunks = << <<7, 255, 216>> >>
    /\ frame_num = 2
    /\ Len(in_queue) = 2
    /\ out_queue = << >>

====
